---- MODULE Spec2Model ----
(***************************************************************************)
(* The Shannon stream cipher engine of src/src/index.ts (class Shannon).   *)
(*                                                                         *)
(* Words are JavaScript int32 values (the results of the bitwise operators *)
(* and the elements of Int32Array): integers in -2^31 .. 2^31-1.  Bytes    *)
(* are the elements of Uint8Array: integers in 0 .. 255.  A byte buffer is *)
(* a sequence, and so is a register (an Int32Array of N words); the        *)
(* source's index i is the sequence index i + 1.                           *)
(***************************************************************************)
EXTENDS Integers, Sequences, FiniteSets, TLC

N == 16
FOLD == N
INITKONST == 1771488570
KEYP == 13

(***************************************************************************)
(* 32-bit two's-complement arithmetic.                                     *)
(***************************************************************************)
MinInt32 == -2147483647 - 1

\* bit 31 of x
Sign(x) == IF x < 0 THEN 1 ELSE 0

\* the low 31 bits of x
U31(x) == IF x < 0 THEN x - MinInt32 ELSE x

\* a ^ b and a | b on two bits: Xor2[a + 1][b + 1], Or2[a + 1][b + 1]
Xor2 == << <<0, 1, 2, 3>>, <<1, 0, 3, 2>>, <<2, 3, 0, 1>>, <<3, 2, 1, 0>> >>

Or2 == << <<0, 1, 2, 3>>, <<1, 1, 3, 3>>, <<2, 3, 2, 3>>, <<3, 3, 3, 3>> >>

\* the bitwise operation of table T on the non-negative a and b, two bits at a time
RECURSIVE BitwiseLow(_, _, _)
BitwiseLow(T, a, b) ==
    IF a = 0 /\ b = 0 THEN 0
    ELSE T[(a % 4) + 1][(b % 4) + 1] + 4 * BitwiseLow(T, a \div 4, b \div 4)

\* the bitwise operation of table T on the int32 a and b
Bitwise(T, a, b) ==
    BitwiseLow(T, U31(a), U31(b))
        + (IF T[Sign(a) + 1][Sign(b) + 1] = 1 THEN MinInt32 ELSE 0)

\* a ^ b
Xor(a, b) == Bitwise(Xor2, a, b)

\* a | b
Or(a, b) == Bitwise(Or2, a, b)

\* x >> s: arithmetic, the shift count is taken modulo 32
Sar(x, s) == IF s % 32 = 0 THEN x ELSE (x \div (2^((s % 32) - 1))) \div 2

\* x << c for 0 < c < 32: the low 32 - c bits of x (low) move up, the highest
\* of them (top) becomes the sign
ShlBits(low, top, c) ==
    IF low >= top THEN ((low - top - top) * (2^(c - 1))) * 2 ELSE (low * (2^(c - 1))) * 2

\* x << s: the shift count is taken modulo 32, the bits shifted out are lost
Shl(x, s) ==
    IF s % 32 = 0 THEN x
    ELSE ShlBits(IF s % 32 = 1 THEN U31(x) ELSE x % (2^(32 - (s % 32))),
                 2^(31 - (s % 32)), s % 32)

\* x >>> s as an int32: logical, the shift count is taken modulo 32
Shr(x, s) ==
    IF s % 32 = 0 THEN x
    ELSE IF x < 0 THEN Sar(U31(x), s) + 2^(31 - (s % 32)) ELSE Sar(x, s)

\* x & 0xFF
Lo8(x) == x % 256

\* a ^ b on bytes, as stored into a Uint8Array
XorByte(a, b) == Lo8(Xor(a, b))

rotateLeft(i, distance) == Or(Shl(i, distance), Shr(i, 0 - distance))

\* i ^= rotateLeft(i, r1) | rotateLeft(i, r2)
sboxStep(i, r1, r2) == Xor(i, Or(rotateLeft(i, r1), rotateLeft(i, r2)))

sbox(i) == sboxStep(sboxStep(i, 5, 7), 19, 22)

sbox2(i) == sboxStep(sboxStep(i, 7, 22), 5, 19)

\* ((b3 & 0xFF) << 24) | ((b2 & 0xFF) << 16) | ((b1 & 0xFF) << 8) | (b0 & 0xFF)
Pack(b0, b1, b2, b3) ==
    Or(Or(Shl(Lo8(b3), 24), Shl(Lo8(b2), 16)), Or(Shl(Lo8(b1), 8), Lo8(b0)))

\* a[i], for an array a of the source
At(a, i) == a[i + 1]

\* the word packed from buf[i .. i+3]
PackAt(buf, i) == Pack(At(buf, i), At(buf, i + 1), At(buf, i + 2), At(buf, i + 3))

\* (t >> 24) & 0xFF, (t >> 16) & 0xFF, (t >> 8) & 0xFF, t & 0xFF, by index
ByteOf(t, k) == Lo8(Sar(t, 8 * k))

(***************************************************************************)
(* The engine: the fields of class Shannon.  macLog is a history variable: *)
(* the words passed to crcFunc since loadKey last initialized the CRC      *)
(* register.                                                               *)
(***************************************************************************)
\* new Int32Array(n)
RECURSIVE ZeroWords(_)
ZeroWords(n) == IF n = 0 THEN <<>> ELSE Append(ZeroWords(n - 1), 0)

NewShannon ==
    [R |-> ZeroWords(N), CRC |-> ZeroWords(N), initR |-> ZeroWords(N),
     konst |-> 0, sbuf |-> 0, mbuf |-> 0, nbuf |-> 0, macLog |-> <<>>]

\* a[j - 1] = a[j] for j = 1 .. N-1, then a[N - 1] = t
ShiftIn(a, t) == Append(Tail(a), t)

\* a[i] ^= b[i] for i = 0 .. N-1
RECURSIVE XorWords(_, _)
XorWords(a, b) ==
    IF a = <<>> THEN <<>>
    ELSE <<Xor(Head(a), Head(b))>> \o XorWords(Tail(a), Tail(b))

\* a variant of the feedback function that leaves konst out
cycleFeedbackNoKonst(e) ==
    Xor(sbox(Xor(At(e.R, 12), At(e.R, 13))), rotateLeft(At(e.R, 0), 1))

\* cycle, lines 62-63: the nonlinear feedback function
cycleFeedback(e) ==
    Xor(sbox(Xor(Xor(At(e.R, 12), At(e.R, 13)), e.konst)), rotateLeft(At(e.R, 0), 1))

\* cycle, lines 66-70: shift the register
cycleShift(e) == [e EXCEPT !.R = ShiftIn(e.R, cycleFeedback(e))]

\* cycle, lines 73-74, with t = sbox2(R[2] ^ R[15])
cycleOutput(e, t) ==
    [e EXCEPT !.R[0 + 1] = Xor(At(e.R, 0), t),
              !.sbuf = Xor(Xor(t, At(e.R, 8)), At(e.R, 12))]

\* cycle, lines 72-74
cycleMix(e) == cycleOutput(e, sbox2(Xor(At(e.R, 2), At(e.R, 15))))

cycle(e) == cycleMix(cycleShift(e))

crcFunc(e, i) ==
    [e EXCEPT !.CRC = ShiftIn(e.CRC, Xor(Xor(Xor(At(e.CRC, 0), At(e.CRC, 2)),
                                             At(e.CRC, 15)), i)),
              !.macLog = Append(e.macLog, i)]

\* this.R[KEYP] ^= k
addKey(e, k) == [e EXCEPT !.R[KEYP + 1] = Xor(At(e.R, KEYP), k)]

macFunc(e, i) == addKey(crcFunc(e, i), i)

\* R[0] = R[1] = 1, R[i] = R[i - 1] + R[i - 2]
RECURSIVE Fibonacci(_, _)
Fibonacci(f, n) ==
    IF Len(f) >= n THEN f ELSE Fibonacci(Append(f, f[Len(f)] + f[Len(f) - 1]), n)

initState(e) == [e EXCEPT !.R = Fibonacci(<<1, 1>>, N), !.konst = INITKONST]

saveState(e) == [e EXCEPT !.initR = e.R]

\* a variant of reloadState that restores nothing
keepState(e) == e

reloadState(e) == [e EXCEPT !.R = e.initR]

genKonst(e) == [e EXCEPT !.konst = At(e.R, 0)]

\* for(let i = 0; i < FOLD; i++) cycle()
RECURSIVE diffuseLoop(_)
diffuseLoop(s) ==
    IF s.i < FOLD THEN diffuseLoop([e |-> cycle(s.e), i |-> s.i + 1]) ELSE s.e

diffuse(e) == diffuseLoop([e |-> e, i |-> 0])

\* _key.length & ~0x03
WholeLen(n) == n - (n % 4)

\* loadKey, lines 184-196: the whole words of the key
RECURSIVE loadKeyWords(_, _)
loadKeyWords(s, key) ==
    IF s.i < WholeLen(Len(key))
    THEN loadKeyWords([e |-> cycle(addKey(s.e, PackAt(key, s.i))), i |-> s.i + 4], key)
    ELSE s.e

\* extra[j], lines 201-208: the trailing bytes of the key, zero padded
extraByte(key, j) ==
    IF WholeLen(Len(key)) + j < Len(key) THEN At(key, WholeLen(Len(key)) + j) ELSE 0

\* loadKey, lines 199-221: the extra bytes
loadKeyExtra(e, key) ==
    IF WholeLen(Len(key)) < Len(key)
    THEN cycle(addKey(e, Pack(extraByte(key, 0), extraByte(key, 1),
                               extraByte(key, 2), extraByte(key, 3))))
    ELSE e

\* loadKey, lines 224-227: fold in the length of the key
loadKeyLength(e, key) == cycle(addKey(e, Len(key)))

\* loadKey, lines 230-232: save a copy of the register
loadKeySave(e) == [e EXCEPT !.CRC = e.R, !.macLog = <<>>]

\* loadKey, lines 238-240: XOR the copy back
loadKeyBack(e) == [e EXCEPT !.R = XorWords(e.R, e.CRC)]

loadKey(e, key) ==
    loadKeyBack(diffuse(loadKeySave(loadKeyLength(
        loadKeyExtra(loadKeyWords([e |-> e, i |-> 0], key), key), key))))

\* a variant of clearNbuf that leaves nbuf as it is
keepNbuf(e) == e

\* this.nbuf = 0
clearNbuf(e) == [e EXCEPT !.nbuf = 0]

key(e, k) == clearNbuf(saveState(genKonst(loadKey(initState(e), k))))

\* nonce, line 271
initKonst(e) == [e EXCEPT !.konst = INITKONST]

nonce(e, iv) == clearNbuf(genKonst(loadKey(initKonst(reloadState(e)), iv)))

\* nonce32, lines 284-289: the bytes of v, most significant first
Nonce32Bytes(v) == <<Lo8(Sar(v, 24)), Lo8(Sar(v, 16)), Lo8(Sar(v, 8)), Lo8(v)>>

nonce32(e, v) == nonce(e, Nonce32Bytes(v))

(***************************************************************************)
(* The arguments of a transform: buffer, and output, which is buffer       *)
(* itself (alias) unless the caller passes another array.                  *)
(***************************************************************************)
InPlace(buffer) == [buffer |-> buffer, output |-> <<>>, alias |-> TRUE]

Copying(buffer, output) == [buffer |-> buffer, output |-> output, alias |-> FALSE]

\* output[i]
RdOut(m, i) == IF m.alias THEN At(m.buffer, i) ELSE At(m.output, i)

\* output[i] = v
WrOut(m, i, v) ==
    IF m.alias THEN [m EXCEPT !.buffer[i + 1] = v] ELSE [m EXCEPT !.output[i + 1] = v]

\* buffer[i] = v
WrBuf(m, i, v) == [m EXCEPT !.buffer[i + 1] = v]

\* the array the transform returns
Returned(m) == IF m.alias THEN m.buffer ELSE m.output

\* let i = 0; let n = buffer.length
Enter(e, m) == [e |-> e, m |-> m, i |-> 0, n |-> Len(m.buffer)]

Leave(s) == [e |-> s.e, m |-> s.m]

\* n &= 0x03
TailLen(n) == n % 4

(***************************************************************************)
(* stream                                                                  *)
(***************************************************************************)
\* lines 304-311 and 338-345
RECURSIVE streamBytes(_)
streamBytes(s) ==
    IF s.e.nbuf # 0 /\ s.n # 0
    THEN streamBytes(
            [e |-> [s.e EXCEPT !.sbuf = Sar(s.e.sbuf, 8), !.nbuf = s.e.nbuf - 8],
             m |-> WrOut(s.m, s.i, XorByte(RdOut(s.m, s.i), Lo8(s.e.sbuf))),
             i |-> s.i + 1,
             n |-> s.n - 1])
    ELSE s

\* output[i + k] ^= (w >> 8k) & 0xFF
XorByteOut(m, i, k, w) == WrOut(m, i + k, XorByte(RdOut(m, i + k), ByteOf(w, k)))

\* lines 321-324
XorWordOut(m, i, w) ==
    XorByteOut(XorByteOut(XorByteOut(XorByteOut(m, i, 3, w), i, 2, w), i, 1, w), i, 0, w)

\* lines 318-326, e1 being the engine after cycle()
streamWord(s, e1) ==
    [s EXCEPT !.e = e1, !.m = XorWordOut(s.m, s.i, e1.sbuf), !.i = s.i + 4]

\* lines 316-327
RECURSIVE streamWords(_, _)
streamWords(s, j) == IF s.i < j THEN streamWords(streamWord(s, cycle(s.e)), j) ELSE s

\* lines 334-336
streamRefill(e) == [e EXCEPT !.nbuf = 32]

\* lines 330-346, n being the length the whole words left
streamTail(s, n) ==
    IF TailLen(n) # 0
    THEN Leave(streamBytes([s EXCEPT !.e = streamRefill(cycle(s.e)), !.n = TailLen(n)]))
    ELSE Leave(s)

\* lines 314-348
streamRest(s) == streamTail(streamWords(s, WholeLen(s.n)), s.n)

stream(e, m) == streamRest(streamBytes(Enter(e, m)))

(***************************************************************************)
(* macOnly                                                                 *)
(***************************************************************************)
\* lines 363-368 and 407-412
RECURSIVE macBytes(_)
macBytes(s) ==
    IF s.e.nbuf # 0 /\ s.n # 0
    THEN macBytes(
            [s EXCEPT !.e = [s.e EXCEPT
                                !.mbuf = Xor(s.e.mbuf, Shl(At(s.m.buffer, s.i), 32 - s.e.nbuf)),
                                !.nbuf = s.e.nbuf - 8],
                      !.i = s.i + 1,
                      !.n = s.n - 1])
    ELSE s

\* lines 382-395
RECURSIVE macWords(_, _)
macWords(s, j) ==
    IF s.i < j
    THEN macWords([s EXCEPT !.e = macFunc(cycle(s.e), PackAt(s.m.buffer, s.i)),
                            !.i = s.i + 4], j)
    ELSE s

\* cycle(); mbuf = 0; nbuf = 32: lines 402-405, 481-484, 564-567
refill(e) == [cycle(e) EXCEPT !.mbuf = 0, !.nbuf = 32]

\* lines 398-415, n being the length the whole words left
macTail(s, n) ==
    IF TailLen(n) # 0
    THEN Leave(macBytes([s EXCEPT !.e = refill(s.e), !.n = TailLen(n)]))
    ELSE Leave(s)

\* lines 380-415
macRest(s) == macTail(macWords(s, WholeLen(s.n)), s.n)

\* the buffered word is complete: macFunc(mbuf), lines 376, 447, 530
flush(s) == [s EXCEPT !.e = macFunc(s.e, s.e.mbuf)]

\* lines 371-415, s being the state after the buffered bytes
macAfter(s) == IF s.e.nbuf # 0 THEN Leave(s) ELSE macRest(flush(s))

macOnly(e, m) ==
    IF e.nbuf # 0 THEN macAfter(macBytes(Enter(e, m))) ELSE macRest(Enter(e, m))

(***************************************************************************)
(* encrypt                                                                 *)
(***************************************************************************)
\* (sbuf >> (32 - nbuf)) & 0xFF
KeyByte(e) == Lo8(Sar(e.sbuf, 32 - e.nbuf))

\* mbuf ^= (b & 0xFF) << (32 - nbuf); nbuf -= 8
macByte(e, b) ==
    [e EXCEPT !.mbuf = Xor(e.mbuf, Shl(Lo8(b), 32 - e.nbuf)), !.nbuf = e.nbuf - 8]

\* lines 430-439 and 486-495
RECURSIVE encryptBytes(_)
encryptBytes(s) ==
    IF s.e.nbuf # 0 /\ s.n # 0
    THEN encryptBytes(
            [e |-> macByte(s.e, At(s.m.buffer, s.i)),
             m |-> WrOut(s.m, s.i, XorByte(RdOut(s.m, s.i), KeyByte(s.e))),
             i |-> s.i + 1,
             n |-> s.n - 1])
    ELSE s

\* output[i + k] = (t >> 8k) & 0xFF for k = 3, 2, 1, 0
PutWordOut(m, i, t) ==
    WrOut(WrOut(WrOut(WrOut(m, i + 3, ByteOf(t, 3)), i + 2, ByteOf(t, 2)),
                i + 1, ByteOf(t, 1)), i, ByteOf(t, 0))

\* lines 463-473, e1 being the engine after cycle() and t the packed word
encryptWord(s, e1, t) ==
    [s EXCEPT !.e = macFunc(e1, t),
              !.m = PutWordOut(s.m, s.i, Xor(t, e1.sbuf)),
              !.i = s.i + 4]

\* lines 453-474
RECURSIVE encryptWords(_, _)
encryptWords(s, j) ==
    IF s.i < j
    THEN encryptWords(encryptWord(s, cycle(s.e), PackAt(s.m.buffer, s.i)), j)
    ELSE s

\* lines 477-498, n being the length the whole words left
encryptTail(s, n) ==
    IF TailLen(n) # 0
    THEN Leave(encryptBytes([s EXCEPT !.e = refill(s.e), !.n = TailLen(n)]))
    ELSE Leave(s)

\* lines 451-498
encryptRest(s) == encryptTail(encryptWords(s, WholeLen(s.n)), s.n)

\* a variant of encryptFlush that does not pass the completed word to the MAC
noFlush(s) == s

\* lines 441-447: the buffered word is complete
encryptFlush(s) == flush(s)

\* lines 442-498, s being the state after the buffered bytes
encryptAfter(s) == IF s.e.nbuf # 0 THEN Leave(s) ELSE encryptRest(encryptFlush(s))

encrypt(e, m) ==
    IF e.nbuf # 0 THEN encryptAfter(encryptBytes(Enter(e, m))) ELSE encryptRest(Enter(e, m))

(***************************************************************************)
(* decrypt                                                                 *)
(***************************************************************************)
\* lines 515-521 and 571-577, m1 being the arrays after the keystream byte
\* was applied: the MAC reads buffer[i]
decryptByteMac(s, m1) ==
    [e |-> macByte(s.e, At(m1.buffer, s.i)), m |-> m1, i |-> s.i + 1, n |-> s.n - 1]

\* lines 513-522: the keystream byte goes into output[i]
RECURSIVE decryptBytesOut(_)
decryptBytesOut(s) ==
    IF s.e.nbuf # 0 /\ s.n # 0
    THEN decryptBytesOut(
            decryptByteMac(s, WrOut(s.m, s.i, XorByte(RdOut(s.m, s.i), KeyByte(s.e)))))
    ELSE s

\* lines 569-578: the keystream byte goes into buffer[i]
RECURSIVE decryptBytesBuf(_)
decryptBytesBuf(s) ==
    IF s.e.nbuf # 0 /\ s.n # 0
    THEN decryptBytesBuf(
            decryptByteMac(s, WrBuf(s.m, s.i, XorByte(At(s.m.buffer, s.i), KeyByte(s.e)))))
    ELSE s

\* lines 541-546: the word that decrypt passes to macFunc and writes out
decryptWord(buffer, i, sbuf) == Xor(PackAt(buffer, i), sbuf)

\* a variant of decryptPut that passes the ciphertext word to the MAC
decryptPutCipher(s, e1, t) ==
    [s EXCEPT !.e = macFunc(e1, PackAt(s.m.buffer, s.i)),
              !.m = PutWordOut(s.m, s.i, t),
              !.i = s.i + 4]

\* lines 548-556, e1 being the engine after cycle() and t the decrypted word
decryptPut(s, e1, t) ==
    [s EXCEPT !.e = macFunc(e1, t), !.m = PutWordOut(s.m, s.i, t), !.i = s.i + 4]

\* lines 538-556, e1 being the engine after cycle()
decryptStep(s, e1) == decryptPut(s, e1, decryptWord(s.m.buffer, s.i, e1.sbuf))

\* lines 536-557
RECURSIVE decryptWords(_, _)
decryptWords(s, j) == IF s.i < j THEN decryptWords(decryptStep(s, cycle(s.e)), j) ELSE s

\* lines 560-581, n being the length the whole words left
decryptTail(s, n) ==
    IF TailLen(n) # 0
    THEN Leave(decryptBytesBuf([s EXCEPT !.e = refill(s.e), !.n = TailLen(n)]))
    ELSE Leave(s)

\* lines 534-581
decryptRest(s) == decryptTail(decryptWords(s, WholeLen(s.n)), s.n)

\* lines 525-581, s being the state after the buffered bytes
decryptAfter(s) == IF s.e.nbuf # 0 THEN Leave(s) ELSE decryptRest(flush(s))

decrypt(e, m) ==
    IF e.nbuf # 0 THEN decryptAfter(decryptBytesOut(Enter(e, m))) ELSE decryptRest(Enter(e, m))

(***************************************************************************)
(* finish                                                                  *)
(***************************************************************************)
\* lines 596-599: the pending partial word goes to the MAC
finishFlush(e) == IF e.nbuf # 0 THEN macFunc(e, e.mbuf) ELSE e

\* a variant of finishMark that ignores the pending bits
finishMarkPlain(e) == INITKONST

\* line 608: the word that marks the end of the input
finishMark(e) == Xor(INITKONST, Shl(e.nbuf, 3))

\* lines 608-610
finishAddKey(e) == clearNbuf(addKey(e, finishMark(e)))

\* lines 607-610
finishPerturb(e) == finishAddKey(cycle(e))

\* lines 613-617
finishFold(e) == diffuse([e EXCEPT !.R = XorWords(e.R, e.CRC)])

\* line 634: byte j of a final partial word, written at output[i + j]
finishTailByte(sbuf, i, j) == Lo8(Sar(sbuf, i * 8))

\* lines 625-631
finishWord(s, e1) ==
    [e |-> e1,
     out |-> s.out \o <<ByteOf(e1.sbuf, 0), ByteOf(e1.sbuf, 1),
                        ByteOf(e1.sbuf, 2), ByteOf(e1.sbuf, 3)>>,
     words |-> Append(s.words, e1.sbuf),
     i |-> s.i + 4,
     n |-> s.n - 4]

\* lines 633-637
finishTail(s, e1) ==
    [s EXCEPT !.e = e1,
              !.out = s.out \o [j \in 1..s.n |-> finishTailByte(e1.sbuf, s.i, j - 1)],
              !.words = Append(s.words, e1.sbuf)]

\* lines 620-639; words collects the values of sbuf the output was taken from
RECURSIVE finishOutput(_)
finishOutput(s) ==
    IF s.n >= 4 THEN finishOutput(finishWord(s, cycle(s.e)))
    ELSE IF s.n > 0 THEN finishTail(s, cycle(s.e))
    ELSE s

\* finish(n): the engine afterwards (e), the tag (out), and the stream words
\* drawn for it (words)
finish(e, n) ==
    finishOutput([e |-> finishFold(finishPerturb(finishFlush(e))),
                  out |-> <<>>, words |-> <<>>, i |-> 0, n |-> n])

(***************************************************************************)
(* The state machine: one engine and its caller.                           *)
(*                                                                         *)
(*   eng      the engine                                                   *)
(*   last     the last call: its name, its arguments as they were before   *)
(*            the call (buffer, output, alias, n), the array it returned   *)
(*            (ret), the input buffer after it (after), the plaintext it   *)
(*            covered (plain) and the stream words finish drew (words)     *)
(*   keyed    <<K>> when the last key was K, <<>> when no key was set      *)
(*   nonced   <<IV>> when a nonce IV was set after the last key, or <<>>   *)
(*   hist     the calls since the last key(), nonce() or nonce32()         *)
(*   atReset  the engine as that last reset left it                        *)
(*   nops     the number of calls made                                     *)
(*   direct   the number of those calls that were direct calls of the      *)
(*            methods key(), nonce() and finish() are made of              *)
(***************************************************************************)
VARIABLES eng, last, keyed, nonced, hist, atReset, nops, direct

vars == <<eng, last, keyed, nonced, hist, atReset, nops, direct>>

\* the bounds of the model
MaxOps == 2
MaxLen == 4
MaxChunks == 3
MaxResetOps == 4
MaxDirect == 1

\* key 65 87 d8 8f 6c 32 9d 8a e4 6b of the tests
TestKey == <<101, 135, 216, 143, 108, 50, 157, 138, 228, 107>>

\* "Hello World"
HelloWorld == <<72, 101, 108, 108, 111, 32, 87, 111, 114, 108, 100>>

\* the bytes the caller's buffers are cut from
Data == <<200, 101, 255, 128, 111, 32, 87, 240, 114>>

Prefix(b, n) == SubSeq(b, 1, n)

\* new Uint8Array(n).fill(v)
RECURSIVE Fill(_, _)
Fill(n, v) == IF n = 0 THEN <<>> ELSE Append(Fill(n - 1, v), v)

Keys == {TestKey, <<1, 2, 3>>}
Nonces == {<<9, 8, 7, 6, 5>>}
Nonce32s == {16909060}
Bufs == {Prefix(Data, n) : n \in 0..MaxLen}
Fills == {0, 165}
TagLens == {0, 2, 4, 7}
MessageChunks == Bufs \cup {HelloWorld}
MessageTagLens == {3, 16}
ResetKeys == {TestKey}
ResetBufs == {Prefix(Data, 1), Prefix(Data, 4)}
ResetTagLens == {4}
KeyWords == {305419896}
KeyLoads == {<<1, 2, 3>>}

Call(op, buffer, output, alias, n) ==
    [op |-> op, buffer |-> buffer, output |-> output, alias |-> alias, n |-> n,
     ret |-> <<>>, after |-> buffer, plain |-> <<>>, words |-> <<>>]

\* new Shannon() and new Shannon(key)
Init ==
    /\ \E k \in {<<>>} \cup {<<x>> : x \in Keys} :
          /\ keyed = k
          /\ eng = IF k = <<>> THEN NewShannon ELSE key(NewShannon, k[1])
    /\ nonced = <<>>
    /\ atReset = eng
    /\ last = Call("new", <<>>, <<>>, TRUE, 0)
    /\ hist = <<>>
    /\ nops = 0
    /\ direct = 0

\* the call c was made and left the engine e
Reset(c, e) ==
    /\ eng' = e
    /\ last' = c
    /\ hist' = <<>>
    /\ atReset' = e
    /\ nops' = nops + 1
    /\ UNCHANGED direct

Key(k) ==
    /\ Reset(Call("key", k, <<>>, TRUE, 0), key(eng, k))
    /\ keyed' = <<k>>
    /\ nonced' = <<>>

Nonce(iv) ==
    /\ Reset(Call("nonce", iv, <<>>, TRUE, 0), nonce(eng, iv))
    /\ nonced' = <<iv>>
    /\ UNCHANGED keyed

Nonce32(v) ==
    /\ Reset(Call("nonce32", <<>>, <<>>, TRUE, v), nonce32(eng, v))
    /\ nonced' = <<Nonce32Bytes(v)>>
    /\ UNCHANGED keyed

\* the call c was made and left the engine e
Called(c, e) ==
    /\ eng' = e
    /\ last' = c
    /\ hist' = Append(hist, c)
    /\ nops' = nops + 1
    /\ UNCHANGED <<keyed, nonced, atReset>>

\* the call c of stream, macOnly, encrypt, decrypt or finish returned
Return(c, e) == Called(c, e) /\ UNCHANGED direct

\* the call c of a method that key(), nonce() and finish() are made of:
\* these methods are not private, a caller can call them
Direct(c, e) == Called(c, e) /\ direct' = direct + 1

InitState == Direct(Call("initState", <<>>, <<>>, TRUE, 0), initState(eng))

SaveState == Direct(Call("saveState", <<>>, <<>>, TRUE, 0), saveState(eng))

ReloadState == Direct(Call("reloadState", <<>>, <<>>, TRUE, 0), reloadState(eng))

GenKonst == Direct(Call("genKonst", <<>>, <<>>, TRUE, 0), genKonst(eng))

AddKey(k) == Direct(Call("addKey", <<>>, <<>>, TRUE, k), addKey(eng, k))

Diffuse == Direct(Call("diffuse", <<>>, <<>>, TRUE, 0), diffuse(eng))

LoadKey(k) == Direct(Call("loadKey", k, <<>>, TRUE, 0), loadKey(eng, k))

\* the transform c left the engine and the arrays r, having covered plain
Transformed(c, r, plain) ==
    Return([c EXCEPT !.ret = Returned(r.m), !.after = r.m.buffer, !.plain = plain], r.e)

Stream(buffer) ==
    \E r \in {stream(eng, InPlace(buffer))} :
        Transformed(Call("stream", buffer, <<>>, TRUE, 0), r, <<>>)

StreamCopy(buffer, output) ==
    \E r \in {stream(eng, Copying(buffer, output))} :
        Transformed(Call("stream", buffer, output, FALSE, 0), r, <<>>)

\* macOnly returns nothing
MacOnly(buffer) ==
    \E r \in {macOnly(eng, InPlace(buffer))} :
        Return([Call("macOnly", buffer, <<>>, TRUE, 0) EXCEPT !.after = r.m.buffer,
                                                              !.plain = buffer], r.e)

Encrypt(buffer) ==
    \E r \in {encrypt(eng, InPlace(buffer))} :
        Transformed(Call("encrypt", buffer, <<>>, TRUE, 0), r, buffer)

EncryptCopy(buffer, output) ==
    \E r \in {encrypt(eng, Copying(buffer, output))} :
        Transformed(Call("encrypt", buffer, output, FALSE, 0), r, buffer)

\* the plaintext of a decrypt call is what decrypting its input in place recovers
Decrypt(buffer) ==
    \E r \in {decrypt(eng, InPlace(buffer))} :
        Transformed(Call("decrypt", buffer, <<>>, TRUE, 0), r, Returned(r.m))

DecryptCopy(buffer, output) ==
    \E r \in {decrypt(eng, Copying(buffer, output))} :
        Transformed(Call("decrypt", buffer, output, FALSE, 0), r,
                    Returned(decrypt(eng, InPlace(buffer)).m))

Finish(n) ==
    \E r \in {finish(eng, n)} :
        Return([Call("finish", <<>>, <<>>, TRUE, n) EXCEPT !.ret = r.out,
                                                            !.words = r.words], r.e)

\* fewer than n calls were made
Fewer(n) == nops < n

\* any calls of the methods that are not private, on the caller's own buffers,
\* in any order
Next ==
    \/ \E k \in Keys : Fewer(MaxOps) /\ Key(k)
    \/ \E iv \in Nonces : Fewer(MaxOps) /\ Nonce(iv)
    \/ \E v \in Nonce32s : Fewer(MaxOps) /\ Nonce32(v)
    \/ \E b \in Bufs : Fewer(MaxOps) /\ Stream(b)
    \/ \E b \in Bufs : Fewer(MaxOps) /\ MacOnly(b)
    \/ \E b \in Bufs : Fewer(MaxOps) /\ Encrypt(b)
    \/ \E b \in Bufs : Fewer(MaxOps) /\ Decrypt(b)
    \/ \E n \in TagLens : Fewer(MaxOps) /\ Finish(n)
    \/ Fewer(MaxOps) /\ InitState
    \/ Fewer(MaxOps) /\ SaveState
    \/ Fewer(MaxOps) /\ ReloadState
    \/ Fewer(MaxOps) /\ GenKonst
    \/ \E k \in KeyWords : Fewer(MaxOps) /\ AddKey(k)
    \/ Fewer(MaxOps) /\ Diffuse
    \/ \E k \in KeyLoads : Fewer(MaxOps) /\ LoadKey(k)

Spec == Init /\ [][Next]_vars

\* the transforms in place and into a distinct output buffer
NextCopy ==
    \/ \E b \in Bufs : Fewer(MaxOps) /\ Stream(b)
    \/ \E b \in Bufs, f \in Fills : Fewer(MaxOps) /\ StreamCopy(b, Fill(Len(b), f))
    \/ \E b \in Bufs : Fewer(MaxOps) /\ MacOnly(b)
    \/ \E b \in Bufs : Fewer(MaxOps) /\ Encrypt(b)
    \/ \E b \in Bufs, f \in Fills : Fewer(MaxOps) /\ EncryptCopy(b, Fill(Len(b), f))
    \/ \E b \in Bufs : Fewer(MaxOps) /\ Decrypt(b)
    \/ \E b \in Bufs, f \in Fills : Fewer(MaxOps) /\ DecryptCopy(b, Fill(Len(b), f))
    \/ \E n \in TagLens : Fewer(MaxOps) /\ Finish(n)

SpecCopy == Init /\ [][NextCopy]_vars

\* one message: new Shannon(key), an optional nonce, then either the message
\* encrypted in place in up to MaxChunks chunks or the ciphertext of a message
\* decrypted in place, and finish
InitMessage == Init /\ keyed # <<>>

\* what encrypting buffer in place on the engine e returns
Ciphertext(e, buffer) == Returned(encrypt(e, InPlace(buffer)).m)

\* the calls made since the reset are all op
Only(op) == \A k \in 1..Len(hist) : hist[k].op = op

NextMessage ==
    \/ \E iv \in Nonces : nops = 0 /\ Nonce(iv)
    \/ \E b \in MessageChunks : Only("encrypt") /\ Len(hist) < MaxChunks /\ Encrypt(b)
    \/ \E b \in MessageChunks : hist = <<>> /\ Decrypt(Ciphertext(eng, b))
    \/ \E n \in MessageTagLens : last.op # "finish" /\ Finish(n)

SpecMessage == InitMessage /\ [][NextMessage]_vars

\* at most MaxDirect direct calls were made
FewDirect == Fewer(MaxResetOps) /\ direct < MaxDirect

\* an engine made with a key that is used, reset and used again
NextReset ==
    \/ \E k \in ResetKeys : Fewer(MaxResetOps) /\ Key(k)
    \/ \E iv \in Nonces : Fewer(MaxResetOps) /\ Nonce(iv)
    \/ \E v \in Nonce32s : Fewer(MaxResetOps) /\ Nonce32(v)
    \/ \E b \in ResetBufs : Fewer(MaxResetOps) /\ Stream(b)
    \/ \E b \in ResetBufs : Fewer(MaxResetOps) /\ MacOnly(b)
    \/ \E b \in ResetBufs : Fewer(MaxResetOps) /\ Encrypt(b)
    \/ \E b \in ResetBufs : Fewer(MaxResetOps) /\ Decrypt(b)
    \/ \E n \in ResetTagLens : Fewer(MaxResetOps) /\ Finish(n)
    \/ FewDirect /\ InitState
    \/ FewDirect /\ SaveState
    \/ FewDirect /\ ReloadState
    \/ FewDirect /\ GenKonst
    \/ \E k \in KeyWords : FewDirect /\ AddKey(k)
    \/ FewDirect /\ Diffuse
    \/ \E k \in KeyLoads : FewDirect /\ LoadKey(k)

InitReset == Init /\ keyed = <<TestKey>>

SpecReset == InitReset /\ [][NextReset]_vars

(***************************************************************************)
(* What the properties are stated with.                                    *)
(***************************************************************************)
\* the engine of new Shannon(K), followed by nonce(IV) when a nonce was set
FreshEngine ==
    IF nonced = <<>> THEN key(NewShannon, keyed[1])
    ELSE nonce(key(NewShannon, keyed[1]), nonced[1])

\* the fields of class Shannon of two engines are equal
SameEngine(a, b) ==
    /\ a.R = b.R
    /\ a.CRC = b.CRC
    /\ a.initR = b.initR
    /\ a.konst = b.konst
    /\ a.sbuf = b.sbuf
    /\ a.mbuf = b.mbuf
    /\ a.nbuf = b.nbuf

\* the input buffers of the calls h, concatenated
RECURSIVE Inputs(_)
Inputs(h) == IF h = <<>> THEN <<>> ELSE h[1].buffer \o Inputs(Tail(h))

\* the arrays the calls h returned, concatenated
RECURSIVE Outputs(_)
Outputs(h) == IF h = <<>> THEN <<>> ELSE h[1].ret \o Outputs(Tail(h))

\* the plaintext the calls h covered, concatenated
RECURSIVE Plains(_)
Plains(h) == IF h = <<>> THEN <<>> ELSE h[1].plain \o Plains(Tail(h))

\* the calls of h that are not finish
Transforms(h) == SelectSeq(h, LAMBDA c : c.op # "finish")

\* h is calls of the operations ops, then possibly one finish
ThenFinish(h, ops) ==
    /\ \A k \in 1..Len(h) : h[k].op \in ops \cup {"finish"}
    /\ \A k \in 1..(Len(h) - 1) : h[k].op # "finish"

\* b extended with zero bytes to the next word boundary
Pad(b) == b \o Fill((4 - (Len(b) % 4)) % 4, 0)

\* the whole words of b, packed little-endian
RECURSIVE PackWords(_)
PackWords(b) ==
    IF Len(b) < 4 THEN <<>>
    ELSE <<PackAt(b, 0)>> \o PackWords(SubSeq(b, 5, Len(b)))

MacOps == {"macOnly", "encrypt", "decrypt"}

\* the in-place call of the transform op on buffer, from the engine e
InPlaceRun(op, e, buffer) ==
    CASE op = "stream"  -> stream(e, InPlace(buffer))
      [] op = "encrypt" -> encrypt(e, InPlace(buffer))
      [] op = "decrypt" -> decrypt(e, InPlace(buffer))

\* the call c made again on the engine e: the engine it leaves and what it returns
Perform(e, c) ==
    CASE c.op = "stream"  -> stream(e, InPlace(c.buffer))
      [] c.op = "macOnly" -> [macOnly(e, InPlace(c.buffer)) EXCEPT !.m.buffer = <<>>]
      [] c.op = "encrypt" -> encrypt(e, InPlace(c.buffer))
      [] c.op = "decrypt" -> decrypt(e, InPlace(c.buffer))
      [] c.op = "finish"  -> [e |-> finish(e, c.n).e, m |-> InPlace(finish(e, c.n).out)]

\* what the calls h return, concatenated, when they are made on the engine e
RECURSIVE Replay(_, _)
ReplayNext(r, h) == Returned(r.m) \o Replay(r.e, Tail(h))

Replay(e, h) == IF h = <<>> THEN <<>> ELSE ReplayNext(Perform(e, h[1]), h)

(***************************************************************************)
(* The properties.                                                         *)
(***************************************************************************)
\* C1: chunking invariance of encrypt().  When a message was encrypted in
\* place chunk by chunk on an engine made with a key (and possibly a nonce),
\* the chunks' ciphertexts, concatenated, are what one in-place encrypt() of
\* the whole message returns on an engine made with the same key and nonce,
\* and a finish() that follows returns the tag that finish() of the same
\* length returns after that one call.
C1_ChunkingInvariance ==
    (keyed # <<>> /\ hist # <<>> /\ ThenFinish(hist, {"encrypt"}))
        => \E whole \in {encrypt(FreshEngine, InPlace(Inputs(Transforms(hist))))} :
              /\ Outputs(Transforms(hist)) = Returned(whole.m)
              /\ last.op = "finish" => last.ret = finish(whole.e, last.n).out

\* three chunks, the first ending inside a word, the second empty, and the tag
C1_Witness ==
    /\ Len(hist) = 4
    /\ hist[1].op = "encrypt" /\ hist[1].buffer = Prefix(Data, 3)
    /\ hist[2].op = "encrypt" /\ hist[2].buffer = <<>>
    /\ hist[3].op = "encrypt" /\ hist[3].buffer = Prefix(Data, 4)
    /\ last.op = "finish" /\ last.n = 3
    /\ Len(last.ret) = 3

\* C2: round trip.  When an engine made with a key (and possibly a nonce)
\* decrypts in place the ciphertext that an engine made with the same key and
\* nonce returned for the plaintext P, it returns P, and a finish() that
\* follows returns the tag that finish() of the same length returns on the
\* encrypting engine.
C2_RoundTrip ==
    (keyed # <<>> /\ hist # <<>> /\ hist[1].op = "decrypt" /\ ThenFinish(hist, {"decrypt"})
        /\ Len(Transforms(hist)) = 1)
        => \A P \in MessageChunks :
              \A A \in {encrypt(FreshEngine, InPlace(P))} :
                  hist[1].buffer = Returned(A.m)
                      => /\ hist[1].ret = P
                         /\ last.op = "finish" => last.ret = finish(A.e, last.n).out

\* the ciphertext of "Hello World" was decrypted under a nonce, and the tag taken
C2_Witness ==
    /\ nonced # <<>>
    /\ Len(hist) = 2
    /\ hist[1].op = "decrypt" /\ hist[1].ret = HelloWorld /\ hist[1].buffer # HelloWorld
    /\ last.op = "finish" /\ last.n = 3

\* ciphertext and tag of the known-answer test
HelloCipher == <<148, 129, 229, 169, 95, 147, 94, 203, 108, 181, 36>>

HelloTag == <<67, 35, 134, 36, 243, 201, 12, 88, 121, 244, 211, 239, 131, 152, 46, 78>>

\* C3: the known-answer vector.  An engine made with the key 65 87 d8 8f 6c 32
\* 9d 8a e4 6b and no nonce that encrypts "Hello World" in place returns
\* 94 81 e5 a9 5f 93 5e cb 6c b5 24, and the finish(16) that follows returns
\* 43 23 86 24 f3 c9 0c 58 79 f4 d3 ef 83 98 2e 4e.
C3_KnownAnswer ==
    (keyed = <<TestKey>> /\ nonced = <<>> /\ hist # <<>>
        /\ hist[1].op = "encrypt" /\ hist[1].buffer = HelloWorld)
        => /\ hist[1].ret = HelloCipher
           /\ (Len(hist) = 2 /\ last.op = "finish" /\ last.n = 16) => last.ret = HelloTag

C3_Witness ==
    /\ keyed = <<TestKey>> /\ nonced = <<>>
    /\ Len(hist) = 2
    /\ hist[1].op = "encrypt" /\ hist[1].buffer = HelloWorld
    /\ last.op = "finish" /\ last.n = 16 /\ Len(last.ret) = 16

\* C4: the copy transform equals the in-place transform.  A call of stream(),
\* encrypt() or decrypt() with a distinct output buffer returns the bytes the
\* in-place call returns from the same engine state and input, leaves the
\* input buffer as it was, and leaves the engine as the in-place call does.
C4_CopyEqualsInPlace ==
    [][(nops' = nops + 1 /\ ~last'.alias)
          => \E r \in {InPlaceRun(last'.op, eng, last'.buffer)} :
                /\ last'.ret = Returned(r.m)
                /\ last'.after = last'.buffer
                /\ SameEngine(eng', r.e)]_vars

\* C5: the tag bytes of finish().  Byte k of the tag that finish(L) returns is
\* byte k mod 4, least significant first, of the (k div 4 + 1)-th word that
\* cycle() produced after the final diffusion.
C5_TagBytes ==
    last.op = "finish"
        => /\ Len(last.ret) = last.n
           /\ \A k \in 0..(last.n - 1) :
                 At(last.ret, k) = ByteOf(last.words[(k \div 4) + 1], k % 4)

\* C6: reset independence.  After key(K), or key(K) and nonce(IV), whatever
\* the engine did before, the calls of stream(), macOnly(), encrypt(),
\* decrypt() and finish() made since return what the same calls return on a
\* new engine made with K (and IV).
C6_ResetIndependence ==
    (keyed # <<>> /\ \A k \in 1..Len(hist) : hist[k].op \in MacOps \cup {"stream", "finish"})
        => Outputs(hist) = Replay(FreshEngine, hist)

\* the operations C7 names besides key(): none of them writes initR
Restartable == {"nonce", "nonce32", "stream", "macOnly", "encrypt", "decrypt", "finish"}

\* new Shannon(K) for the keys K that are used
Keyed == [k \in Keys \cup ResetKeys |-> key(NewShannon, k)]

\* the nonces that are set by nonce() and by nonce32()
NonceBytes == Nonces \cup {Nonce32Bytes(v) : v \in Nonce32s}

\* nonce(IV) called immediately after key(K)
Restarted == [k \in Keys \cup ResetKeys, iv \in NonceBytes |-> nonce(Keyed[k], iv)]

\* C7: nonce restart without re-keying.  initR is written by key() only:
\* nonce(), nonce32(), stream(), macOnly(), encrypt(), decrypt() and finish()
\* leave it unchanged, and key(K) leaves the initR that key(K) on a new engine
\* leaves.  Hence nonce(IV) or nonce32(v), called after key(K) and any
\* sequence of those operations (no other call made since the engine was
\* constructed, or initR still the one key(K) saved), leaves R, CRC, konst and
\* nbuf (= 0) as they are when it is called immediately after key(K).
C7_NonceRestart ==
    [][/\ last'.op \in Restartable => eng'.initR = eng.initR
       /\ (nops' = nops + 1 /\ last'.op = "key") => eng'.initR = Keyed[keyed'[1]].initR
       /\ (nops' = nops + 1 /\ last'.op \in {"nonce", "nonce32"} /\ keyed' # <<>>
              /\ (direct = 0 \/ eng.initR = Keyed[keyed'[1]].initR))
             => \E f \in {Restarted[keyed'[1], nonced'[1]]} :
                   /\ eng'.R = f.R
                   /\ eng'.CRC = f.CRC
                   /\ eng'.konst = f.konst
                   /\ eng'.nbuf = 0
                   /\ f.nbuf = 0]_vars

\* nonce() was called on a keyed engine that had processed data (a byte is
\* still in mbuf and CRC had moved) with nothing but the named operations
\* called before, and the register is the one a new keyed engine gets
C7_Witness ==
    /\ last.op = "nonce"
    /\ keyed = <<TestKey>>
    /\ direct = 0
    /\ nops >= 3
    /\ eng.mbuf # 0
    /\ eng.nbuf = 0
    /\ eng.R = Restarted[TestKey, nonced[1]].R

\* C8: the MAC is fed plaintext only.  After calls of macOnly(), encrypt() and
\* decrypt() since the last reset, the words passed to crcFunc are the whole
\* words of the plaintext covered, packed little-endian, and after finish()
\* those of the plaintext extended with zero bytes to a word boundary.
C8_MacOverPlaintext ==
    ThenFinish(hist, MacOps)
        => eng.macLog =
              IF hist # <<>> /\ last.op = "finish"
              THEN PackWords(Pad(Plains(hist)))
              ELSE PackWords(Plains(hist))

\* C9: nbuf is one of 0, 8, 16, 24, 32 in every state, and 0 after key(),
\* nonce(), nonce32() and finish().
C9_BufferedBits ==
    /\ eng.nbuf \in {0, 8, 16, 24, 32}
    /\ last.op \in {"key", "nonce", "nonce32", "finish"} => eng.nbuf = 0

\* finish() was called while three bytes of a word were pending
C9_Witness ==
    /\ Len(hist) = 2
    /\ hist[1].op = "encrypt" /\ Len(hist[1].buffer) = 3
    /\ last.op = "finish"
    /\ eng.nbuf = 0

\* C10: finalization of a partial word.  When finish() is called after
\* macOnly(), encrypt() and decrypt() calls that covered, since the last
\* reset, a plaintext P that ends inside a word, CRC at the fold is the CRC
\* that P extended with zero bytes gives, and R after the addKey of line 608
\* differs from the R the extended message gives exactly by (nbuf << 3) in
\* R[KEYP], nbuf being the pending bits before they are reset.
C10_PartialWordFinish ==
    [][(nops' = nops + 1 /\ last'.op = "finish" /\ hist # <<>>
           /\ ThenFinish(hist, MacOps) /\ last.op # "finish" /\ eng.nbuf # 0)
          => \E ext \in {macOnly(atReset, InPlace(Pad(Plains(hist)))).e} :
                \E a \in {finishPerturb(finishFlush(eng))},
                   b \in {finishPerturb(finishFlush(ext))} :
                    /\ ext.nbuf = 0
                    /\ eng'.CRC = ext.CRC
                    /\ a.CRC = ext.CRC
                    /\ eng'.macLog = PackWords(Pad(Plains(hist)))
                    /\ a.R = [b.R EXCEPT ![KEYP + 1] = Xor(@, Shl(eng.nbuf, 3))]
                    /\ a.nbuf = 0
                    /\ SameEngine(eng', finish(eng, last'.n).e)]_vars

\* finish() came after a message of five bytes given in two calls
C10_Witness ==
    /\ Len(hist) = 3
    /\ hist[1].op = "decrypt" /\ Len(hist[1].buffer) = 4
    /\ hist[2].op = "macOnly" /\ Len(hist[2].buffer) = 1
    /\ last.op = "finish"
    /\ Len(eng.macLog) = 2

====
